---- MODULE Spec2Model ----
(***************************************************************************)
(* A state-machine model of the pharmacy marketplace API (src/main.py,     *)
(* src/schemas.py).  The document store is modelled as four collections;   *)
(* a document's identifier is its position in its collection (the store    *)
(* assigns identifiers on insertion and never reuses them; nothing here    *)
(* deletes).  Identifiers drawn as inputs are well-formed identifier       *)
(* strings.  The routes without state (/, /test, /schema) and the plain    *)
(* listing GET /api/pharmacies are left out, and so are the ingestion of   *)
(* pharmacies and medicines (plain inserts): the catalogue is in place     *)
(* when a specification starts.                                            *)
(*                                                                         *)
(* Money is exact decimal arithmetic: prices and running totals are in     *)
(* thousandths of a currency unit, persisted fees and amounts in           *)
(* hundredths (round(x, 2)).  Binary floating-point representation error   *)
(* is not modelled.                                                        *)
(*                                                                         *)
(* Every handler is one atomic action.  For create_order this loses        *)
(* nothing: inventory documents are only ever inserted, never changed, so  *)
(* what its item loop reads one lookup at a time is what it would read     *)
(* at the moment of its last lookup.                                       *)
(***************************************************************************)
EXTENDS Integers, Sequences, FiniteSets, TLC

VARIABLES
  pharmacy,   \* collection "pharmacy":  sequence of Pharmacy documents
  medicine,   \* collection "medicine":  sequence of Medicine documents
  inventory,  \* collection "inventory": sequence of Inventory documents
  order,      \* collection "order":     sequence of Order documents
  req,        \* the request being answered (NoRequest when none)
  resp        \* its response (NoResponse when none is outstanding)

vars == <<pharmacy, medicine, inventory, order, req, resp>>

(***************************************************************************)
(* Bounds of the model.                                                    *)
(***************************************************************************)
MaxOrders == 2
MaxItems == 2
MaxInventories == 2
MaxPharmacies == 2

(***************************************************************************)
(* Python values.                                                          *)
(***************************************************************************)
None == "None"
\* Truthiness of an Optional[str]: None and "" are both falsy.
Truthy(s) == s # None /\ s # ""

Max(a, b) == IF a >= b THEN a ELSE b
Abs(a) == IF a >= 0 THEN a ELSE 0 - a

\* round(n / d, 0) for d > 0, ties to even (Python 3's round).
RoundHalfEven(n, d) ==
  LET q == n \div d
      r == n - q * d
  IN  IF 2 * r < d THEN q
      ELSE IF 2 * r > d THEN q + 1
      ELSE IF q % 2 = 0 THEN q ELSE q + 1

NoRequest == [op |-> "none", args |-> None]
NoResponse == [op |-> "none", code |-> 0, detail |-> "", body |-> None]

Response(op, code, detail, body) ==
  [op |-> op, code |-> code, detail |-> detail, body |-> body]
\* raise HTTPException(status_code=code, detail=detail)
HTTPException(op, code, detail) == Response(op, code, detail, None)
\* a request body rejected by the pydantic request model
ValidationError(op) == Response(op, 422, "validation", None)

(***************************************************************************)
(* Database access layer (not part of src/): insert appends a document     *)
(* and returns its new identifier; find_one by identifier.                 *)
(***************************************************************************)
create_document(collection, doc) == Append(collection, doc)
new_document_id(collection) == Len(collection) + 1
find_one(collection, id) == IF id \in DOMAIN collection THEN collection[id] ELSE None
found(collection, id) == id \in DOMAIN collection

(***************************************************************************)
(* schemas.py                                                              *)
(***************************************************************************)
DeliveryMethods == {"delivery", "click_collect"}
OrderStatuses ==
  {"pending_validation", "validated", "preparing", "out_for_delivery",
   "ready_for_pickup", "delivered", "cancelled"}
\* OrderItem: quantity: int = Field(..., ge=1)
ValidOrderItem(item) == item.quantity >= 1

(***************************************************************************)
(* POST /api/orders                                                        *)
(***************************************************************************)
\* CreateOrderRequest: items: List[OrderItem]; delivery_method: Literal[...]
ValidCreateOrderRequest(payload) ==
  /\ \A i \in DOMAIN payload.items : ValidOrderItem(payload.items[i])
  /\ payload.delivery_method \in DeliveryMethods

ItemLoopSkipsMissing(items, i, total, requires_rx) ==
  LET RECURSIVE Go(_, _, _)
      Go(k, t, rx) ==
        IF k > Len(items) THEN [raised |-> "none", code |-> 200, total |-> t, requires_rx |-> rx]
        ELSE IF ~found(inventory, items[k].inventory_id) THEN Go(k + 1, t, rx)
        ELSE IF inventory[items[k].inventory_id].stock < items[k].quantity
          THEN [raised |-> "Insufficient stock", code |-> 400, total |-> t, requires_rx |-> rx]
        ELSE Go(k + 1, t + items[k].price * items[k].quantity,
                rx \/ items[k].requires_prescription)
  IN Go(i, total, requires_rx)

ItemLoopInventoryPrice(items, i, total, requires_rx) ==
  LET RECURSIVE Go(_, _, _)
      Go(k, t, rx) ==
        IF k > Len(items) THEN [raised |-> "none", code |-> 200, total |-> t, requires_rx |-> rx]
        ELSE IF ~found(inventory, items[k].inventory_id)
          THEN [raised |-> "Inventory not found", code |-> 404, total |-> t, requires_rx |-> rx]
        ELSE IF inventory[items[k].inventory_id].stock < items[k].quantity
          THEN [raised |-> "Insufficient stock", code |-> 400, total |-> t, requires_rx |-> rx]
        ELSE Go(k + 1, t + inventory[items[k].inventory_id].price * items[k].quantity,
                rx \/ items[k].requires_prescription)
  IN Go(i, total, requires_rx)

\* The for loop of create_order from item i on, with the running total and
\* requires_rx: it stops at the first item that raises.
RECURSIVE ItemLoop(_, _, _, _)
ItemLoop(items, i, total, requires_rx) ==
  IF i > Len(items)
    THEN [raised |-> "none", code |-> 200, total |-> total, requires_rx |-> requires_rx]
  ELSE IF ~found(inventory, items[i].inventory_id)
    THEN [raised |-> "Inventory not found", code |-> 404,
          total |-> total, requires_rx |-> requires_rx]
  ELSE IF inventory[items[i].inventory_id].stock < items[i].quantity
    THEN [raised |-> "Insufficient stock", code |-> 400,
          total |-> total, requires_rx |-> requires_rx]
  ELSE ItemLoop(items, i + 1,
                total + items[i].price * items[i].quantity,
                requires_rx \/ items[i].requires_prescription)

\* The floor of the fee base: the literal 100 (currency units) at line 183.
FEE_FLOOR == 100
\* The flat delivery fee 2.5, in hundredths.
DELIVERY_FEE == 250

\* round(max(0.01 * total, 100) / 100.0, 2), total in thousandths, the
\* result in hundredths:  max(total/100, 100*1000) / 100 thousandths
\*   = max(total, 100*100000) / 100000 hundredths.
ServiceFee(total) == RoundHalfEven(Max(total, FEE_FLOOR * 100000), 100000)

DeliveryFee(delivery_method) ==
  IF delivery_method = "delivery" THEN DELIVERY_FEE ELSE 0

\* round(total + service_fee + delivery_fee, 2), in hundredths.
TotalAmount(total, service_fee, delivery_fee) ==
  RoundHalfEven(total + 10 * service_fee + 10 * delivery_fee, 10)

PrescriptionCheckSkipped(requires_rx, prescription_url) == FALSE

PrescriptionCheckOnlyNone(requires_rx, prescription_url) ==
  requires_rx /\ prescription_url = None

\* if requires_rx and not payload.prescription_url
PrescriptionMissing(requires_rx, prescription_url) ==
  requires_rx /\ ~Truthy(prescription_url)

\* Order(...) as built at lines 194-206.
OrderDoc(payload, status, service_fee, delivery_fee, total_amount) ==
  [user_name |-> payload.user_name,
   user_phone |-> payload.user_phone,
   pharmacy_id |-> payload.pharmacy_id,
   items |-> payload.items,
   delivery_method |-> payload.delivery_method,
   delivery_address |-> payload.delivery_address,
   prescription_url |-> payload.prescription_url,
   status |-> status,
   service_fee |-> service_fee,
   delivery_fee |-> delivery_fee,
   total_amount |-> total_amount]

\* What create_order answers and what the order collection is afterwards.
CreateOrderOutcome(payload) ==
  IF ~ValidCreateOrderRequest(payload)
    THEN [resp |-> ValidationError("create_order"), order |-> order]
  ELSE
    LET r == ItemLoop(payload.items, 1, 0, FALSE)
        service_fee == ServiceFee(r.total)
        delivery_fee == DeliveryFee(payload.delivery_method)
        status == "pending_validation"
        total_amount == TotalAmount(r.total, service_fee, delivery_fee)
    IN  IF r.raised # "none"
          THEN [resp |-> HTTPException("create_order", r.code, r.raised), order |-> order]
        ELSE IF PrescriptionMissing(r.requires_rx, payload.prescription_url)
          THEN [resp |-> HTTPException("create_order", 400, "Prescription required"),
                order |-> order]
        ELSE [resp |-> Response("create_order", 200, "",
                         [order_id |-> new_document_id(order),
                          status |-> status,
                          total_amount |-> total_amount,
                          delivery_fee |-> delivery_fee,
                          service_fee |-> service_fee]),
              order |-> create_document(order,
                          OrderDoc(payload, status, service_fee, delivery_fee,
                                   total_amount))]

\* Quantity of inventory row k requested by the items from position i on.
RECURSIVE Requested(_, _, _)
Requested(items, k, i) ==
  IF i > Len(items) THEN 0
  ELSE (IF items[i].inventory_id = k THEN items[i].quantity ELSE 0)
       + Requested(items, k, i + 1)

create_order_decrementing(payload) ==
  /\ req' = [op |-> "create_order", args |-> payload]
  /\ LET out == CreateOrderOutcome(payload)
     IN  /\ resp' = out.resp
         /\ order' = out.order
         /\ inventory' =
              IF out.resp.code = 200
                THEN [k \in DOMAIN inventory |->
                        [inventory[k] EXCEPT
                           !.stock = Max(0, @ - Requested(payload.items, k, 1))]]
                ELSE inventory
  /\ UNCHANGED <<pharmacy, medicine>>

create_order(payload) ==
  /\ req' = [op |-> "create_order", args |-> payload]
  /\ LET out == CreateOrderOutcome(payload)
     IN  /\ resp' = out.resp
         /\ order' = out.order
  /\ UNCHANGED <<pharmacy, medicine, inventory>>

(***************************************************************************)
(* GET /api/orders/{id}, PUT /api/orders/{id}, GET /api/orders             *)
(***************************************************************************)
\* UpdateOrderStatusRequest: status: Literal[six statuses]
UpdateStatuses ==
  {"validated", "preparing", "out_for_delivery", "ready_for_pickup",
   "delivered", "cancelled"}

\* update_one({"_id": id}, {"$set": {"status": status}}): the collection afterwards.
update_one_status(collection, order_id, status) ==
  IF found(collection, order_id)
    THEN [collection EXCEPT ![order_id].status = status]
    ELSE collection

update_order_status_guarded(order_id, payload) ==
  /\ req' = [op |-> "update_order_status",
             args |-> [order_id |-> order_id, status |-> payload.status]]
  /\ IF payload.status \notin UpdateStatuses
       THEN resp' = ValidationError("update_order_status") /\ UNCHANGED order
     ELSE IF ~found(order, order_id)
       THEN resp' = HTTPException("update_order_status", 404, "Order not found")
            /\ UNCHANGED order
     ELSE IF order[order_id].status \in {"delivered", "cancelled"}
       THEN resp' = HTTPException("update_order_status", 400, "Invalid transition")
            /\ UNCHANGED order
     ELSE /\ order' = update_one_status(order, order_id, payload.status)
          /\ resp' = Response("update_order_status", 200, "",
                       [order_id |-> order_id, status |-> payload.status])
  /\ UNCHANGED <<pharmacy, medicine, inventory>>

update_order_status_any(order_id, payload) ==
  /\ req' = [op |-> "update_order_status",
             args |-> [order_id |-> order_id, status |-> payload.status]]
  /\ IF ~found(order, order_id)
       THEN resp' = HTTPException("update_order_status", 404, "Order not found")
            /\ UNCHANGED order
       ELSE /\ order' = update_one_status(order, order_id, payload.status)
            /\ resp' = Response("update_order_status", 200, "",
                         [order_id |-> order_id, status |-> payload.status])
  /\ UNCHANGED <<pharmacy, medicine, inventory>>

update_order_status_resetting(order_id, payload) ==
  /\ req' = [op |-> "update_order_status",
             args |-> [order_id |-> order_id, status |-> payload.status]]
  /\ IF payload.status \notin UpdateStatuses
       THEN resp' = ValidationError("update_order_status") /\ UNCHANGED order
     ELSE IF ~found(order, order_id)
       THEN resp' = HTTPException("update_order_status", 404, "Order not found")
            /\ UNCHANGED order
     ELSE /\ order' = [order EXCEPT ![order_id].status = payload.status,
                                    ![order_id].prescription_url = None]
          /\ resp' = Response("update_order_status", 200, "",
                       [order_id |-> order_id, status |-> payload.status])
  /\ UNCHANGED <<pharmacy, medicine, inventory>>

update_order_status(order_id, payload) ==
  /\ req' = [op |-> "update_order_status",
             args |-> [order_id |-> order_id, status |-> payload.status]]
  /\ IF payload.status \notin UpdateStatuses
       THEN resp' = ValidationError("update_order_status") /\ UNCHANGED order
     ELSE IF ~found(order, order_id)          \* res.matched_count == 0
       THEN resp' = HTTPException("update_order_status", 404, "Order not found")
            /\ UNCHANGED order
     ELSE /\ order' = update_one_status(order, order_id, payload.status)
          /\ resp' = Response("update_order_status", 200, "",
                       [order_id |-> order_id, status |-> payload.status])
  /\ UNCHANGED <<pharmacy, medicine, inventory>>

get_order(order_id) ==
  /\ req' = [op |-> "get_order", args |-> [order_id |-> order_id]]
  /\ IF ~found(order, order_id)
       THEN resp' = HTTPException("get_order", 404, "Order not found")
       ELSE resp' = Response("get_order", 200, "",
                      [id |-> order_id, doc |-> find_one(order, order_id)])
  /\ UNCHANGED <<pharmacy, medicine, inventory, order>>

\* find(filter_q).sort("created_at", -1): the matching identifiers, newest first.
RECURSIVE find_orders_newest_first(_, _, _)
find_orders_newest_first(user_phone, pharmacy_id, n) ==
  IF n = 0 THEN <<>>
  ELSE LET matches ==
             /\ (Truthy(user_phone) => order[n].user_phone = user_phone)
             /\ (Truthy(pharmacy_id) => order[n].pharmacy_id = pharmacy_id)
       IN  (IF matches THEN <<n>> ELSE <<>>)
           \o find_orders_newest_first(user_phone, pharmacy_id, n - 1)

list_orders(user_phone, pharmacy_id) ==
  /\ req' = [op |-> "list_orders",
             args |-> [user_phone |-> user_phone, pharmacy_id |-> pharmacy_id]]
  /\ LET ids == find_orders_newest_first(user_phone, pharmacy_id, Len(order))
     IN  resp' = Response("list_orders", 200, "",
                   [i \in DOMAIN ids |-> [id |-> ids[i], doc |-> order[ids[i]]]])
  /\ UNCHANGED <<pharmacy, medicine, inventory, order>>

(***************************************************************************)
(* POST /api/inventories                                                   *)
(***************************************************************************)
\* Inventory: price: float = Field(..., ge=0); stock: int = Field(..., ge=0)
ValidInventory(doc) == doc.price >= 0 /\ doc.stock >= 0

add_inventory(doc) ==
  /\ req' = [op |-> "add_inventory", args |-> doc]
  /\ IF ~ValidInventory(doc)
       THEN resp' = ValidationError("add_inventory") /\ UNCHANGED inventory
       ELSE /\ inventory' = create_document(inventory, doc)
            /\ resp' = Response("add_inventory", 200, "",
                         [id |-> new_document_id(inventory)])
  /\ UNCHANGED <<pharmacy, medicine, order>>

(***************************************************************************)
(* GET /api/search                                                         *)
(*                                                                         *)
(* Text (q, a medicine's name and dci) is a sequence of characters; the    *)
(* empty sequence stands for both None and "", which the handler treats    *)
(* alike.  An Optional[float] is <<>> (None) or <<x>>.  Coordinates are    *)
(* whole degrees on the equator, where the haversine formula reduces to    *)
(* the arc between the two longitudes; distances are in hundredths of a    *)
(* kilometre, prices in thousandths of a currency unit.                    *)
(***************************************************************************)
Lower(c) == IF c = "A" THEN "a" ELSE IF c = "B" THEN "b" ELSE c

\* {"$regex": q, "$options": "i"} for a q without regex metacharacters:
\* q occurs in text, case ignored.
RegexMatchI(text, q) ==
  \E i \in 0..(Len(text) - Len(q)) :
    \A j \in 1..Len(q) : Lower(text[i + j]) = Lower(q[j])

\* med_filter as built at lines 99-106, applied to one Medicine document.
MedicineMatches(m, q, barcode) ==
  IF Truthy(barcode) THEN m.barcode = barcode
  ELSE IF q # <<>> THEN RegexMatchI(m.name, q) \/ (m.dci # <<>> /\ RegexMatchI(m.dci, q))
  ELSE TRUE

\* The kilometres in one degree of a great circle, 6371 * pi / 180 =
\* 111.1949266..., as 11119 hundredths and 0.4926645 of a hundredth.
KM_PER_DEGREE_HUNDREDTHS == 11119
KM_PER_DEGREE_REST == 4926645

\* round(haversine_km(lat1, lon1, lat2, lon2), 2) for lat1 = lat2 = 0:
\* a = sin^2(dlon/2), c = 2 asin(|sin(dlon/2)|) is the arc |dlon|, or
\* 360 - |dlon| beyond the antipode.
haversine_km(lat1, lon1, lat2, lon2) ==
  LET d == Abs(lon2 - lon1)
      arc == IF d <= 180 THEN d ELSE 360 - d
  IN  KM_PER_DEGREE_HUNDREDTHS * arc
      + (KM_PER_DEGREE_REST * arc + 5000000) \div 10000000

\* The sentinel 1e9 (kilometres) of the sort key.
SENTINEL_KM == 1000000000

DistanceKeyZero(distance_km) ==
  IF distance_km # <<>> THEN <<distance_km[1] \div 100, distance_km[1] % 100>>
  ELSE <<0, 0>>

\* x.distance_km if x.distance_km is not None else 1e9, as <<whole
\* kilometres, hundredths>>.
DistanceKey(distance_km) ==
  IF distance_km # <<>> THEN <<distance_km[1] \div 100, distance_km[1] % 100>>
  ELSE <<SENTINEL_KM, 0>>

\* Python's tuple comparison key(a) <= key(b) for the key
\* (distance or sentinel, price).
KeyLE(a, b) ==
  LET ka == DistanceKey(a.distance_km)
      kb == DistanceKey(b.distance_km)
  IN  \/ ka[1] < kb[1]
      \/ ka[1] = kb[1] /\ ka[2] < kb[2]
      \/ ka = kb /\ a.price <= b.price

\* row put into an already sorted sequence behind every row that is not
\* greater (list.sort is stable).
RECURSIVE InsertRow(_, _)
InsertRow(sorted, row) ==
  IF sorted = <<>> THEN <<row>>
  ELSE IF KeyLE(sorted[Len(sorted)], row) THEN Append(sorted, row)
  ELSE Append(InsertRow(SubSeq(sorted, 1, Len(sorted) - 1), row), sorted[Len(sorted)])

RECURSIVE SortRows(_)
SortRows(rows) ==
  IF rows = <<>> THEN <<>>
  ELSE InsertRow(SortRows(SubSeq(rows, 1, Len(rows) - 1)), rows[Len(rows)])

\* SearchResponseItem for one inventory row (lines 124-142).
SearchRow(inventory_id, latitude, longitude) ==
  LET inv == inventory[inventory_id]
      has_ph == found(pharmacy, inv.pharmacy_id)
  IN  [inventory_id |-> inventory_id,
       pharmacy_id |-> inv.pharmacy_id,
       pharmacy_name |-> IF has_ph THEN pharmacy[inv.pharmacy_id].name ELSE "Unknown",
       price |-> inv.price,
       stock |-> inv.stock,
       distance_km |->
         IF latitude # <<>> /\ longitude # <<>> /\ has_ph
           THEN <<haversine_km(latitude[1], longitude[1],
                               pharmacy[inv.pharmacy_id].latitude,
                               pharmacy[inv.pharmacy_id].longitude)>>
           ELSE <<>>]

\* The rows of the inventories from position i on that reference a matched
\* medicine and have stock, in store order.
RECURSIVE SearchRows(_, _, _, _)
SearchRows(med_ids, latitude, longitude, i) ==
  IF i > Len(inventory) THEN <<>>
  ELSE (IF inventory[i].medicine_id \in med_ids /\ inventory[i].stock > 0
          THEN <<SearchRow(i, latitude, longitude)>> ELSE <<>>)
       \o SearchRows(med_ids, latitude, longitude, i + 1)

search_inventories(q, barcode, latitude, longitude) ==
  /\ req' = [op |-> "search_inventories",
             args |-> [q |-> q, barcode |-> barcode,
                       latitude |-> latitude, longitude |-> longitude]]
  /\ IF q = <<>> /\ ~Truthy(barcode)
       THEN resp' = HTTPException("search_inventories", 400, "Provide 'q' or 'barcode'")
       ELSE LET med_ids == {m \in DOMAIN medicine : MedicineMatches(medicine[m], q, barcode)}
            IN  resp' = Response("search_inventories", 200, "",
                          SortRows(SearchRows(med_ids, latitude, longitude, 1)))
  /\ UNCHANGED <<pharmacy, medicine, inventory, order>>

\* The response is returned to the client.
Deliver ==
  /\ resp # NoResponse
  /\ req' = NoRequest
  /\ resp' = NoResponse
  /\ UNCHANGED <<pharmacy, medicine, inventory, order>>

\* No request is being answered.
Idle == resp = NoResponse

(***************************************************************************)
(* Inputs.                                                                 *)
(***************************************************************************)
SeqsUpTo(S, n) == UNION {[1..k -> S] : k \in 0..n}

OrderItem(inventory_id, price, quantity, requires_prescription) ==
  [inventory_id |-> inventory_id, medicine_name |-> "med", price |-> price,
   quantity |-> quantity, requires_prescription |-> requires_prescription]

CreateOrderRequest(user_phone, items, delivery_method, prescription_url) ==
  [user_name |-> "ann", user_phone |-> user_phone, pharmacy_id |-> "ph1",
   items |-> items, delivery_method |-> delivery_method,
   delivery_address |-> IF delivery_method = "delivery" THEN "addr" ELSE None,
   prescription_url |-> prescription_url]

InventoryDoc(pharmacy_id, medicine_id, price, stock) ==
  [pharmacy_id |-> pharmacy_id, medicine_id |-> medicine_id,
   price |-> price, stock |-> stock]

(***************************************************************************)
(* Spec: the service with its catalogue ingested and no inventory and no   *)
(* order yet, its routes called in any order.                              *)
(***************************************************************************)
PharmacyDocs ==
  {[name |-> "ph", latitude |-> 0, longitude |-> longitude] : longitude \in {10, 180}}

MedicineCatalogue ==
  <<[name |-> <<"A", "b">>, dci |-> <<"c">>, barcode |-> "b1"],
    [name |-> <<"d">>, dci |-> <<>>, barcode |-> None]>>

LifeInventoryDocs == {InventoryDoc(1, 1, 3000, 1), InventoryDoc(1, 1, 3000, 0 - 1)}

LifePayloads ==
  {CreateOrderRequest("p1", <<OrderItem(1, 2500, 1, FALSE)>>, "delivery", None),
   CreateOrderRequest("p2", <<OrderItem(1, 2500, 1, TRUE)>>, "click_collect", "url"),
   CreateOrderRequest("p1", <<OrderItem(1, 2500, 1, TRUE)>>, "click_collect", None),
   CreateOrderRequest("p1", <<OrderItem(1, 2500, 2, FALSE)>>, "click_collect", None),
   CreateOrderRequest("p1", <<OrderItem(MaxInventories + 1, 2500, 1, FALSE)>>,
                      "click_collect", None),
   CreateOrderRequest("p1", <<OrderItem(1, 2500, 0, FALSE)>>, "click_collect", None)}

Init ==
  /\ pharmacy \in [1..1 -> PharmacyDocs]
  /\ medicine = MedicineCatalogue
  /\ inventory = <<>>
  /\ order = <<>>
  /\ req = NoRequest
  /\ resp = NoResponse

AddInventory ==
  /\ Idle
  /\ Len(inventory) < MaxInventories
  /\ \E doc \in LifeInventoryDocs : add_inventory(doc)

PlaceOrder ==
  /\ Idle
  /\ Len(order) < MaxOrders
  /\ \E payload \in LifePayloads : create_order(payload)

UpdateOrderStatus ==
  /\ Idle
  /\ \E order_id \in 1..(MaxOrders + 1), status \in OrderStatuses :
       update_order_status(order_id, [status |-> status])

GetOrder ==
  /\ Idle
  /\ \E order_id \in 1..(MaxOrders + 1) : get_order(order_id)

ListOrders ==
  /\ Idle
  /\ \E user_phone \in {None, "p1"}, pharmacy_id \in {None, "ph1"} :
       list_orders(user_phone, pharmacy_id)

Search ==
  /\ Idle
  /\ \E q \in {<<>>, <<"a">>}, barcode \in {None, "b1"} :
       search_inventories(q, barcode, <<0>>, <<0>>)

Next ==
  \/ AddInventory
  \/ PlaceOrder
  \/ UpdateOrderStatus
  \/ GetOrder
  \/ ListOrders
  \/ Search
  \/ Deliver

Spec == Init /\ [][Next]_vars

(***************************************************************************)
(* SpecPlace: one order placement against a seeded inventory.              *)
(***************************************************************************)
PlaceInventoryDocs == {InventoryDoc(1, 1, 9990, stock) : stock \in {1, 2}}

PlaceItems ==
  {OrderItem(inventory_id, 2500, quantity, requires_prescription) :
     inventory_id \in 1..(MaxInventories + 1), quantity \in {1, 2},
     requires_prescription \in BOOLEAN}

PlacePayloads ==
  {CreateOrderRequest("p1", items, "click_collect", prescription_url) :
     items \in SeqsUpTo(PlaceItems, MaxItems),
     prescription_url \in {None, "", "url"}}

InitPlace ==
  /\ pharmacy = <<>>
  /\ medicine = <<>>
  /\ inventory \in SeqsUpTo(PlaceInventoryDocs, MaxInventories)
  /\ order = <<>>
  /\ req = NoRequest
  /\ resp = NoResponse

PlaceOneOrder == Idle /\ \E payload \in PlacePayloads : create_order(payload)

SpecPlace == InitPlace /\ [][PlaceOneOrder]_vars

(***************************************************************************)
(* SpecTotals: one order placement, the prices and the delivery method     *)
(* varied.                                                                 *)
(***************************************************************************)
Prices == {1004, 2500, 15060000}

TotalsItems ==
  {OrderItem(inventory_id, price, quantity, FALSE) :
     inventory_id \in 1..MaxInventories, price \in Prices, quantity \in {1, 2}}

TotalsPayloads ==
  {CreateOrderRequest("p1", items, delivery_method, None) :
     items \in SeqsUpTo(TotalsItems, MaxItems),
     delivery_method \in DeliveryMethods}

PriceOneOrder == Idle /\ \E payload \in TotalsPayloads : create_order(payload)

SpecTotals == InitPlace /\ [][PriceOneOrder]_vars

(***************************************************************************)
(* SpecSearch: one search against a seeded catalogue.                      *)
(***************************************************************************)
SearchInventoryDocs ==
  {InventoryDoc(pharmacy_id, 1, price, 3) :
     pharmacy_id \in 1..(MaxPharmacies + 1), price \in {1000, 2000}}
  \cup {InventoryDoc(1, 1, 500, 0), InventoryDoc(1, 2, 500, 3)}

InitSearch ==
  /\ pharmacy \in SeqsUpTo(PharmacyDocs, MaxPharmacies)
  /\ medicine = MedicineCatalogue
  /\ inventory \in SeqsUpTo(SearchInventoryDocs, MaxInventories)
  /\ order = <<>>
  /\ req = NoRequest
  /\ resp = NoResponse

SearchOnce ==
  /\ Idle
  /\ \E q \in {<<>>, <<"a", "B">>}, barcode \in {None, "b1"},
        latitude \in {<<>>, <<0>>}, longitude \in {<<>>, <<0>>, <<0 - 170>>} :
       search_inventories(q, barcode, latitude, longitude)

SpecSearch == InitSearch /\ [][SearchOnce]_vars

(***************************************************************************)
(* Properties.  What a placement request asks for, read off the request    *)
(* alone.                                                                  *)
(***************************************************************************)
IsMissing(item) == item.inventory_id \notin DOMAIN inventory
WithinStock(item) ==
  /\ item.inventory_id \in DOMAIN inventory
  /\ item.quantity <= inventory[item.inventory_id].stock
WellFormed(payload) ==
  /\ payload.delivery_method \in {"delivery", "click_collect"}
  /\ \A i \in DOMAIN payload.items : payload.items[i].quantity >= 1
AllWithinStock(payload) == \A i \in DOMAIN payload.items : WithinStock(payload.items[i])
NeedsPrescription(payload) ==
  \E i \in DOMAIN payload.items : payload.items[i].requires_prescription
NoPrescriptionUrl(payload) == payload.prescription_url = None
NoUsablePrescriptionUrl(payload) == payload.prescription_url \in {None, ""}
Placed == resp.op = "create_order"

\* C1: order placement is all-or-nothing: a placement that fails leaves the
\* order collection exactly as it was, and an order is inserted (one, at the
\* end) only by a placement whose every item passed the inventory and stock
\* checks and whose prescription check passed.
C1_AllOrNothing ==
  [][resp'.op = "create_order" =>
       /\ (resp'.code # 200 => order' = order)
       /\ (order' # order =>
             /\ resp'.code = 200
             /\ Len(order') = Len(order) + 1
             /\ SubSeq(order', 1, Len(order)) = order
             /\ WellFormed(req'.args)
             /\ AllWithinStock(req'.args)
             /\ ~(NeedsPrescription(req'.args) /\ NoUsablePrescriptionUrl(req'.args)))]_vars

\* C1 witness: a placement rejected for its missing prescription, after its
\* items passed, with an earlier order in the collection.
C1_Witness ==
  /\ Placed
  /\ resp.code = 400
  /\ resp.detail = "Prescription required"
  /\ Len(order) >= 1

\* C2 as stated: whenever some item references an inventory identifier with
\* no document, placement ends NotFound, whatever the other items are.
C2_Original ==
  (Placed /\ \E i \in DOMAIN req.args.items : IsMissing(req.args.items[i]))
    => resp.code = 404

FirstMissing(items) ==
  CHOOSE i \in DOMAIN items :
    IsMissing(items[i]) /\ \A j \in 1..(i - 1) : ~IsMissing(items[j])

\* C2 amended: a well-formed placement with an item whose inventory does not
\* exist fails and persists nothing: NotFound when every item before the
\* first such item is within stock, InvalidInput (insufficient stock)
\* when an earlier item is not.
C2_Amended ==
  (Placed /\ WellFormed(req.args)
          /\ \E i \in DOMAIN req.args.items : IsMissing(req.args.items[i]))
    => LET items == req.args.items
           m == FirstMissing(items)
       IN  /\ order = <<>>
           /\ IF \A j \in 1..(m - 1) : WithinStock(items[j])
                THEN resp.code = 404 /\ resp.detail = "Inventory not found"
                ELSE resp.code = 400 /\ resp.detail = "Insufficient stock"

\* C2 witness: the missing inventory is referenced by the second item, after
\* an item that passed, and placement ended NotFound.
C2_Witness ==
  /\ Placed
  /\ Len(req.args.items) = 2
  /\ WithinStock(req.args.items[1])
  /\ IsMissing(req.args.items[2])
  /\ resp.code = 404

\* C3 as stated: placement fails "Prescription required" whenever an item
\* requires a prescription and no prescription_url is supplied, and the
\* prescription check never rejects when no item requires one or a
\* prescription_url is supplied.
C3_Original ==
  Placed =>
    /\ (NeedsPrescription(req.args) /\ NoPrescriptionUrl(req.args))
         => (resp.code = 400 /\ resp.detail = "Prescription required")
    /\ (~NeedsPrescription(req.args) \/ ~NoPrescriptionUrl(req.args))
         => resp.detail # "Prescription required"

\* C3 amended: a well-formed placement whose items are all within stock
\* fails InvalidInput "Prescription required" exactly when some item requires
\* a prescription and prescription_url is absent or empty, whatever the other
\* items require; a placement with an item that fails its inventory or stock
\* check fails with that item's error, never with "Prescription required".
C3_Amended ==
  (Placed /\ WellFormed(req.args)) =>
    /\ (resp.detail = "Prescription required") <=>
         /\ AllWithinStock(req.args)
         /\ NeedsPrescription(req.args)
         /\ NoUsablePrescriptionUrl(req.args)
    /\ (resp.detail = "Prescription required") => (resp.code = 400 /\ order = <<>>)

\* C3 witness: two items within stock, one requiring a prescription and one
\* not, an empty prescription_url, and placement rejected for it.
C3_Witness ==
  /\ Placed
  /\ Len(req.args.items) = 2
  /\ AllWithinStock(req.args)
  /\ req.args.items[1].requires_prescription
  /\ ~req.args.items[2].requires_prescription
  /\ req.args.prescription_url = ""
  /\ resp.code = 400
  /\ resp.detail = "Prescription required"

SixStatuses ==
  {"validated", "preparing", "out_for_delivery", "ready_for_pickup",
   "delivered", "cancelled"}

\* C4: an update to any of the six non-initial statuses of an existing order
\* succeeds whatever its current status and leaves it with exactly that
\* status (and every other order as it was); an update of an identifier of no
\* order fails NotFound and leaves the collection as it was.
C4_UpdateUnrestricted ==
  [][(resp'.op = "update_order_status" /\ req'.args.status \in SixStatuses) =>
       LET id == req'.args.order_id
       IN  IF id \in DOMAIN order
             THEN /\ resp'.code = 200
                  /\ DOMAIN order' = DOMAIN order
                  /\ order'[id].status = req'.args.status
                  /\ \A other \in DOMAIN order \ {id} : order'[other] = order[other]
             ELSE /\ resp'.code = 404
                  /\ order' = order]_vars

\* C4 witness: an update of one order has succeeded while the other stays
\* delivered.
C4_Witness ==
  /\ resp.op = "update_order_status"
  /\ resp.code = 200
  /\ req.args.status = "preparing"
  /\ order[req.args.order_id].status = "preparing"
  /\ Len(order) = 2
  /\ \E other \in DOMAIN order : order[other].status = "delivered"

\* An update of order id to status s is accepted and leaves it with status s.
CanUpdateTo(id, s) ==
  ENABLED (update_order_status(id, [status |-> s]) /\ order'[id].status = s)

\* C5 as stated: every status is reachable from every other via the update
\* route (an update sets the status in one step, so reachable is reachable
\* in one update).
C5_Original ==
  \A id \in DOMAIN order :
    \A s \in OrderStatuses \ {order[id].status} : CanUpdateTo(id, s)

\* C5 amended: each of the six non-initial statuses is reachable from every
\* status via the update route; pending_validation is reachable via creation
\* only: every order is created pending_validation and no request takes an
\* order that has left pending_validation back to it.
C5_Amended ==
  /\ [](\A id \in DOMAIN order : \A s \in SixStatuses : CanUpdateTo(id, s))
  /\ [][/\ \A id \in DOMAIN order' \ DOMAIN order :
               order'[id].status = "pending_validation"
        /\ \A id \in DOMAIN order \cap DOMAIN order' :
               order'[id].status = "pending_validation"
                 => order[id].status = "pending_validation"]_vars

\* C5 witness: one order has been taken to a final status while another is
\* still as created.
C5_Witness ==
  /\ Len(order) = 2
  /\ order[1].status = "cancelled"
  /\ order[2].status = "pending_validation"

\* C6: every persisted order has at least one item.
C6_ItemsNonEmpty == \A id \in DOMAIN order : Len(order[id].items) >= 1

Computable(row) == row.distance_km # <<>>

\* C7: the rows of a search result are in ascending order of distance with
\* price as the tiebreak, every row with a distance before every row
\* without, and rows of equal distance (those without included) in ascending
\* order of price.
C7_SearchOrdering ==
  (resp.op = "search_inventories" /\ resp.code = 200) =>
    \A i \in DOMAIN resp.body : \A j \in DOMAIN resp.body :
      i < j =>
        LET a == resp.body[i]
            b == resp.body[j]
        IN  /\ Computable(b) => Computable(a)
            /\ (Computable(a) /\ Computable(b)) => a.distance_km[1] <= b.distance_km[1]
            /\ a.distance_km = b.distance_km => a.price <= b.price

\* C7 witness: a row with a distance precedes a cheaper row without one.
C7_Witness ==
  /\ resp.op = "search_inventories"
  /\ resp.code = 200
  /\ \E i \in DOMAIN resp.body : \E j \in DOMAIN resp.body :
       /\ i < j
       /\ Computable(resp.body[i])
       /\ ~Computable(resp.body[j])
       /\ resp.body[j].price < resp.body[i].price

\* Sum over the items of the request-supplied price times quantity.
RECURSIVE ItemsTotal(_)
ItemsTotal(items) ==
  IF items = <<>> THEN 0
  ELSE items[1].price * items[1].quantity + ItemsTotal(Tail(items))

\* n / d rounded to the nearest integer, a tie to the even one.
Nearest(n, d) ==
  CHOOSE c \in ((n \div d) - 1)..((n \div d) + 1) :
    /\ 2 * Abs(d * c - n) <= d
    /\ (2 * Abs(d * c - n) = d => c % 2 = 0)

C9_StockNeverDecremented ==
  [][resp'.op = "create_order" =>
       /\ inventory' = inventory
       /\ (/\ WellFormed(req'.args)
           /\ AllWithinStock(req'.args)
           /\ ~(NeedsPrescription(req'.args) /\ NoUsablePrescriptionUrl(req'.args)))
            => resp'.code = 200]_vars

RECURSIVE QuantityIn(_, _)
QuantityIn(items, k) ==
  IF items = <<>> THEN 0
  ELSE (IF items[1].inventory_id = k THEN items[1].quantity ELSE 0)
       + QuantityIn(Tail(items), k)

RECURSIVE QuantityOrdered(_, _)
QuantityOrdered(n, k) ==
  IF n = 0 THEN 0 ELSE QuantityIn(order[n].items, k) + QuantityOrdered(n - 1, k)

\* C9 witness: the accepted orders for one inventory row add up to more
\* than its stock, and the last of them has just been accepted.
C9_Witness ==
  /\ Placed
  /\ resp.code = 200
  /\ Len(order) = 2
  /\ \E k \in DOMAIN inventory : QuantityOrdered(Len(order), k) > inventory[k].stock

NonStatusFields(doc) == [doc EXCEPT !.status = "any"]

\* C10: an order comes into existence only by a successful placement, is
\* never deleted, and changes only in its status, and only by an update:
\* every other field keeps its value at creation through every request.
C10_OrderLifecycle ==
  [][/\ DOMAIN order \subseteq DOMAIN order'
     /\ \A id \in DOMAIN order : NonStatusFields(order'[id]) = NonStatusFields(order[id])
     /\ DOMAIN order' # DOMAIN order =>
          /\ resp'.op = "create_order"
          /\ resp'.code = 200
          /\ Len(order') = Len(order) + 1
     /\ (\E id \in DOMAIN order : order'[id] # order[id]) =>
          resp'.op = "update_order_status"]_vars

\* C10 witness: an order placed with a prescription has had its status
\* updated while a second order exists.
C10_Witness ==
  /\ Len(order) = 2
  /\ resp.op = "update_order_status"
  /\ resp.code = 200
  /\ order[req.args.order_id].prescription_url = "url"
  /\ order[req.args.order_id].status = "delivered"

====
